---- MODULE Spec2Model ----
(***************************************************************************)
(* h5features: the legacy write()/read() wrappers (h5features.py) and the  *)
(* Writer (writer.py) over one HDF5 file.                                  *)
(*                                                                         *)
(* The file is modelled by what the library can observe of it: whether it  *)
(* exists and is HDF5, and for each group its version and format           *)
(* attributes, the chunk size its datasets were created with, the set of   *)
(* dataset names it holds and the rows of its items, times, features and   *)
(* index datasets.  Times are one value per frame; a feature row is a      *)
(* sequence of values, whose length is its number of columns.              *)
(*                                                                         *)
(* Items, Times, Features, SparseFeatures, Index and Reader are imported   *)
(* by the sources but their modules are not among them; they are modelled  *)
(* from the design document and the docstrings of the wrappers.            *)
(***************************************************************************)
EXTENDS Integers, Sequences, FiniteSets, TLC

VARIABLES fstate, groups, last, written

vars == <<fstate, groups, last, written>>

(***************************************************************************)
(* Bounds of the model.                                                    *)
(***************************************************************************)
\* items in one write call
MaxNew == 2
\* frames of one item in one write call
MaxFrames == 2
\* items stored in one group
MaxItems == 2
\* feature rows (and times rows) stored in one group
MaxRows == 2
\* time stamps are 0..MaxTime
MaxTime == 1

(***************************************************************************)
(* Program constants.  Chunk sizes are in Ko (0.001 Mo): the floor of      *)
(* 0.008 Mo is 8 and the default of 0.1 Mo is 100.                         *)
(***************************************************************************)
ChunkFloor == 8
DefaultChunk == 100
Version == "1.0"

None == "None"
\* an optional time: <<>> for None, <<t>> for the time t
NoTime == <<>>
NoGroup == [version |-> None]

ItemIds == {"a", "b"}
GroupNames == {"features"}
Formats == {"dense", "sparse"}
ChunkSizes == {ChunkFloor - 1, ChunkFloor, DefaultChunk}
TimeVals == 0..MaxTime
\* the rows a feature matrix is made of: two rows of one column, one of two
FeatRows == {<<0>>, <<1>>, <<0, 1>>}

(***************************************************************************)
(* Sequences.                                                              *)
(***************************************************************************)
Range(s) == {s[i] : i \in 1..Len(s)}

SeqsUpTo(S, lo, hi) == UNION {[1..n -> S] : n \in lo..hi}

IsPrefix(s, t) == Len(s) <= Len(t) /\ \A i \in 1..Len(s) : s[i] = t[i]

Last(s) == s[Len(s)]

RECURSIVE Flatten(_)
Flatten(ss) == IF ss = <<>> THEN <<>> ELSE Head(ss) \o Flatten(Tail(ss))

RECURSIVE RowsUpTo(_, _)
\* rows of the first n arrays of ss
RowsUpTo(ss, n) == IF n = 0 THEN 0 ELSE RowsUpTo(ss, n - 1) + Len(ss[n])

\* the rows lo..hi of s as Python slices them: bounds outside s are cut
Slice(s, lo, hi) ==
    LET l == IF lo < 1 THEN 1 ELSE lo
        h == IF hi > Len(s) THEN Len(s) ELSE hi
    IN IF h < l THEN <<>> ELSE SubSeq(s, l, h)

\* dict(zip(keys, vals)): a later pair replaces an earlier one with the same key
DictZip(keys, vals) ==
    LET n == IF Len(keys) < Len(vals) THEN Len(keys) ELSE Len(vals)
        at(k) == CHOOSE i \in 1..n :
                     keys[i] = k /\ \A j \in 1..n : keys[j] = k => j <= i
    IN [k \in {keys[i] : i \in 1..n} |-> vals[at(k)]]

(***************************************************************************)
(* The data objects built by write(): Items, Times, Features.              *)
(***************************************************************************)
\* Items(data): the identifiers are unique
ItemsValid(items) ==
    \A i, j \in 1..Len(items) : items[i] = items[j] => i = j

\* Times(data): the times of each item are non-decreasing
TimesValid(times) ==
    \A k \in 1..Len(times) :
        \A i, j \in 1..Len(times[k]) : i < j => times[k][i] <= times[k][j]

\* Features(data) and SparseFeatures(data, sparsity): one column count for all
FeaturesValid(features) ==
    \A k, l \in 1..Len(features) :
        \A i \in 1..Len(features[k]) : \A j \in 1..Len(features[l]) :
            Len(features[k][i]) = Len(features[l][j])

FeaturesName == "features"
ItemsName == "items"
TimesName == "times"
IndexName == "index"

\* Features.create / SparseFeatures.create: the datasets of the feature store
FeaturesDatasets(dformat) ==
    IF dformat = "sparse" THEN {FeaturesName, "frames", "coordinates"}
    ELSE {FeaturesName}

\* data[k].is_compatible(group), k in features, items, times
FeaturesIsCompatible(group, data) == group.format = data.dformat
ItemsIsCompatible(group, data) == ItemsName \in group.datasets
TimesIsCompatible(group, data) == TimesName \in group.datasets

(***************************************************************************)
(* Index.                                                                  *)
(***************************************************************************)
\* Index.create: the offset dataset starts at offset 0
IndexCreate == <<0>>

\* Index.write(group, items, features): one cumulative offset per new item,
\* previous total row count + the rows of the new items up to this one
IndexWrite(group, data) ==
    LET base == IF group.index = <<>> THEN 0 ELSE Last(group.index)
    IN group.index \o
       [i \in 1..Len(data.features) |-> base + RowsUpTo(data.features, i)]

(***************************************************************************)
(* Writer.                                                                 *)
(***************************************************************************)
is_same_version(group) == group.version = Version

is_same_datasets(group, data) ==
    LET datasets == {ItemsName, TimesName, FeaturesName, IndexName}
                    \cup (IF data.dformat = "sparse"
                          THEN {"frames", "coordinates"} ELSE {})
    IN datasets \subseteq group.datasets

\* mutant: the data objects are not asked
is_compatible_NoData(group, data) ==
    is_same_version(group) /\ is_same_datasets(group, data)

is_compatible(group, data) ==
    /\ is_same_version(group)
    /\ is_same_datasets(group, data)
    /\ FeaturesIsCompatible(group, data)
    /\ ItemsIsCompatible(group, data)
    /\ TimesIsCompatible(group, data)

\* the else branch of Writer.write: create the group and its empty datasets
CreateGroup(data, chunk_size) ==
    [version  |-> Version,
     format   |-> data.dformat,
     chunk    |-> chunk_size,
     datasets |-> FeaturesDatasets(data.dformat)
                  \cup {TimesName, ItemsName, IndexName},
     items    |-> <<>>,
     times    |-> <<>>,
     features |-> <<>>,
     index    |-> IndexCreate]

\* mutant: the feature store is overwritten instead of extended
AppendRows_Rewrite(group, data) ==
    [group EXCEPT !.index    = IndexWrite(group, data),
                  !.items    = @ \o data.items,
                  !.features = Flatten(data.features),
                  !.times    = @ \o Flatten(data.times)]

\* mutant: the times are not written
AppendRows_NoTimes(group, data) ==
    [group EXCEPT !.index    = IndexWrite(group, data),
                  !.items    = @ \o data.items,
                  !.features = @ \o Flatten(data.features)]

\* mutant: the index is not written
AppendRows_NoIndex(group, data) ==
    [group EXCEPT !.items    = @ \o data.items,
                  !.features = @ \o Flatten(data.features),
                  !.times    = @ \o Flatten(data.times)]

\* the four appends that end Writer.write: index, items, features, times
AppendRows(group, data) ==
    [group EXCEPT !.index    = IndexWrite(group, data),
                  !.items    = @ \o data.items,
                  !.features = @ \o Flatten(data.features),
                  !.times    = @ \o Flatten(data.times)]

\* mutant: the chunk size is not checked
WriterInit_NoFloor(file, chunk_size) ==
    IF file.fstate = "nothdf5" THEN "IOError" ELSE "ok"

\* Writer.__init__: "ok" or the error it raises
WriterInit(file, chunk_size) ==
    IF file.fstate = "nothdf5" THEN "IOError"
    ELSE IF chunk_size < ChunkFloor THEN "IOError"
    ELSE "ok"

\* mutant: the rows are appended before the compatibility check raises
WriterWrite_AppendFirst(file, data, groupname, chunk_size) ==
    LET opened == [fstate |-> "hdf5", groups |-> file.groups]
        group  == opened.groups[groupname]
    IN IF group # NoGroup
       THEN [status |-> IF is_compatible(group, data) THEN "ok" ELSE "IOError",
             stage  |-> IF is_compatible(group, data)
                        THEN "appended" ELSE "compatible",
             file   |-> [opened EXCEPT !.groups[groupname] =
                            AppendRows(group, data)]]
       ELSE [status |-> "ok", stage |-> "created",
             file   |-> [opened EXCEPT !.groups[groupname] =
                            AppendRows(CreateGroup(data, chunk_size), data)]]

\* Writer.write: the file after the call, the outcome, and the stage the call
\* ended in: the compatibility check that raised, the append to an existing
\* group, or the append to the group it created.  h5py.File(mode='a') creates
\* the file when it does not exist.  write() calls it with append=True, which
\* this Writer spells as its only behaviour: append when the group exists.
WriterWrite(file, data, groupname, chunk_size) ==
    LET opened == [fstate |-> "hdf5", groups |-> file.groups]
        group  == opened.groups[groupname]
    IN IF group # NoGroup
       THEN IF ~is_compatible(group, data)
            THEN [status |-> "IOError", stage |-> "compatible", file |-> opened]
            ELSE [status |-> "ok", stage |-> "appended",
                  file   |-> [opened EXCEPT !.groups[groupname] =
                                 AppendRows(group, data)]]
       ELSE [status |-> "ok", stage |-> "created",
             file   |-> [opened EXCEPT !.groups[groupname] =
                            AppendRows(CreateGroup(data, chunk_size), data)]]

(***************************************************************************)
(* Writer.write step by step.  The body of the with statement is a         *)
(* sequence of operations on the open file; any of them may raise (the     *)
(* storage engine reports an I/O error), and is_compatible returning False *)
(* makes the call raise IOError.  An operation that raises has no effect.  *)
(***************************************************************************)
\* the group right after h5file.create_group(groupname)
EmptyGroup ==
    [version  |-> None,
     format   |-> None,
     chunk    |-> 0,
     datasets |-> {},
     items    |-> <<>>,
     times    |-> <<>>,
     features |-> <<>>,
     index    |-> <<>>]

\* the else branch of Writer.write, in the order of its statements
CreateSteps ==
    <<"create_group", "attrs.version", "features.create", "times.create",
      "items.create", "index.create">>

\* the four statements that end Writer.write, in their order
AppendSteps == <<"index.write", "items.write", "features.write", "times.write">>

\* mutant: the times are appended first
WriterProgram_TimesFirst(exists) ==
    <<"exists">> \o (IF exists THEN <<"is_compatible">> ELSE CreateSteps)
    \o <<"times.write", "index.write", "items.write", "features.write">>

\* mutant: the rows are appended before the group is checked or created
WriterProgram_AppendFirst(exists) ==
    <<"exists">> \o AppendSteps
    \o (IF exists THEN <<"is_compatible">> ELSE CreateSteps)

\* the operations of one Writer.write call between opening and closing the
\* file: the test groupname in h5file, one branch of the if, the appends
WriterProgram(exists) ==
    <<"exists">> \o (IF exists THEN <<"is_compatible">> ELSE CreateSteps)
    \o AppendSteps

\* the group after one operation of Writer.write
ApplyStep(step, group, data, chunk_size) ==
    CASE step = "create_group"    -> EmptyGroup
      [] step = "attrs.version"   -> [group EXCEPT !.version = Version]
      [] step = "features.create" ->
            [group EXCEPT !.format = data.dformat, !.chunk = chunk_size,
                          !.datasets = @ \cup FeaturesDatasets(data.dformat)]
      [] step = "times.create"    -> [group EXCEPT !.datasets = @ \cup {TimesName}]
      [] step = "items.create"    -> [group EXCEPT !.datasets = @ \cup {ItemsName}]
      [] step = "index.create"    ->
            [group EXCEPT !.datasets = @ \cup {IndexName}, !.index = IndexCreate]
      [] step = "index.write"     -> [group EXCEPT !.index = IndexWrite(group, data)]
      [] step = "items.write"     -> [group EXCEPT !.items = @ \o data.items]
      [] step = "features.write"  ->
            [group EXCEPT !.features = @ \o Flatten(data.features)]
      [] step = "times.write"     -> [group EXCEPT !.times = @ \o Flatten(data.times)]
      [] OTHER                    -> group

RECURSIVE RunSteps(_, _, _, _, _, _)
\* run the operations prog[k..]; the operation number fault raises.  Gives
\* the outcome, the operation that raised, the group, and the operations
\* that were carried out
RunSteps(prog, k, group, data, chunk_size, fault) ==
    IF k > Len(prog)
    THEN [status |-> "ok", stage |-> "done", group |-> group, steps |-> prog]
    ELSE IF k = fault
    THEN [status |-> "RuntimeError", stage |-> prog[k], group |-> group,
          steps |-> SubSeq(prog, 1, k - 1)]
    ELSE IF prog[k] = "is_compatible" /\ ~is_compatible(group, data)
    THEN [status |-> "IOError", stage |-> "compatible", group |-> group,
          steps |-> SubSeq(prog, 1, k)]
    ELSE RunSteps(prog, k + 1, ApplyStep(prog[k], group, data, chunk_size),
                  data, chunk_size, fault)

\* mutant: the file is opened and closed by hand, closed on return only
WriterRun_CloseOnReturn(file, data, groupname, chunk_size, fault) ==
    LET opened == [fstate |-> "hdf5", groups |-> file.groups]
        exists == opened.groups[groupname] # NoGroup
        run    == RunSteps(WriterProgram(exists), 1, opened.groups[groupname],
                           data, chunk_size, fault)
    IN [status |-> run.status,
        stage  |-> IF run.status # "ok" THEN run.stage
                   ELSE IF exists THEN "appended" ELSE "created",
        file   |-> [opened EXCEPT !.groups[groupname] = run.group],
        steps  |-> <<"open">> \o run.steps
                   \o (IF run.status = "ok" THEN <<"close">> ELSE <<>>)]

\* mutant: the whole group table is rebuilt by the call
WriterRun_OnlyGroup(file, data, groupname, chunk_size, fault) ==
    LET opened == [fstate |-> "hdf5", groups |-> file.groups]
        exists == opened.groups[groupname] # NoGroup
        run    == RunSteps(WriterProgram(exists), 1, opened.groups[groupname],
                           data, chunk_size, fault)
    IN [status |-> run.status,
        stage  |-> IF run.status # "ok" THEN run.stage
                   ELSE IF exists THEN "appended" ELSE "created",
        file   |-> [opened EXCEPT !.groups =
                       [g \in DOMAIN opened.groups |->
                           IF g = groupname THEN run.group ELSE NoGroup]],
        steps  |-> <<"open">> \o run.steps \o <<"close">>]

\* Writer.write with the operation number fault raising (0: none does): the
\* with statement opens the file, which creates it when it does not exist,
\* and closes it when the body is left, by return or by exception
WriterRun(file, data, groupname, chunk_size, fault) ==
    LET opened == [fstate |-> "hdf5", groups |-> file.groups]
        exists == opened.groups[groupname] # NoGroup
        run    == RunSteps(WriterProgram(exists), 1, opened.groups[groupname],
                           data, chunk_size, fault)
    IN [status |-> run.status,
        stage  |-> IF run.status # "ok" THEN run.stage
                   ELSE IF exists THEN "appended" ELSE "created",
        file   |-> [opened EXCEPT !.groups[groupname] = run.group],
        steps  |-> <<"open">> \o run.steps \o <<"close">>]


(***************************************************************************)
(* write(filename, groupname, items_data, times_data, features_data,       *)
(*       dformat, chunk_size, sparsity)                                    *)
(***************************************************************************)
\* the Items, Times and Features objects: "ok" or the error raised building them
PrepareData(call) ==
    IF ~ItemsValid(call.items) THEN "ValidationError"
    ELSE IF ~TimesValid(call.times) THEN "ValidationError"
    ELSE IF ~FeaturesValid(call.features) THEN "ValidationError"
    ELSE "ok"

\* data['items'], data['times'], data['features'] as handed to the Writer
Data(call) ==
    [items    |-> call.items,
     times    |-> call.times,
     features |-> call.features,
     dformat  |-> call.dformat]

\* mutant: the Writer runs first and the data objects are built after it
write_WriterFirst(file, call) ==
    LET w == IF WriterInit(file, call.chunk_size) # "ok"
             THEN [status |-> WriterInit(file, call.chunk_size),
                   stage |-> "init", file |-> file]
             ELSE WriterWrite(file, Data(call), call.group, call.chunk_size)
    IN IF PrepareData(call) # "ok"
       THEN [status |-> PrepareData(call), stage |-> "data", file |-> w.file]
       ELSE w

write(file, call) ==
    LET data == Data(call)
    IN IF PrepareData(call) # "ok"
       THEN [status |-> PrepareData(call), stage |-> "data", file |-> file]
       ELSE IF WriterInit(file, call.chunk_size) # "ok"
       THEN [status |-> WriterInit(file, call.chunk_size), stage |-> "init",
             file |-> file]
       ELSE WriterWrite(file, data, call.group, call.chunk_size)

(***************************************************************************)
(* Reader and read(filename, groupname, from_item, to_item, from_time,     *)
(*                 to_time, index)                                         *)
(***************************************************************************)
\* Python's s[lo:hi]: the 1-based rows lo+1..hi
PySlice(s, lo, hi) == Slice(s, lo + 1, hi)

\* position of an item in the item set (the first, should it be stored twice)
ItemPos(items, item) ==
    CHOOSE i \in 1..Len(items) :
        items[i] = item /\ \A j \in 1..Len(items) : items[j] = item => i <= j

\* first row of times at or after t, the last row when there is none
FirstRowFrom(times, t) ==
    IF \E i \in 1..Len(times) : times[i] >= t
    THEN CHOOSE i \in 1..Len(times) :
             times[i] >= t /\ \A j \in 1..(i - 1) : times[j] < t
    ELSE IF times = <<>> THEN 1 ELSE Len(times)

\* last row of times at or before t, the first row when there is none
LastRowTo(times, t) ==
    IF \E i \in 1..Len(times) : times[i] <= t
    THEN CHOOSE i \in 1..Len(times) :
             times[i] <= t /\ \A j \in (i + 1)..Len(times) : times[j] > t
    ELSE IF times = <<>> THEN 0 ELSE 1

\* Reader(filename, groupname): "ok" or the error it raises
ReaderInit(file, groupname) ==
    IF file.fstate # "hdf5" THEN "IOError"
    ELSE IF file.groups[groupname] = NoGroup THEN "IOError"
    ELSE IF ~({ItemsName, TimesName, FeaturesName, IndexName}
                \subseteq file.groups[groupname].datasets) THEN "IOError"
    ELSE "ok"

\* the rows of the items from_pos..to_pos, cut at from_time in the first item
\* and at to_time in the last
ReadRange(group, from_pos, to_pos, from_time, to_time) ==
    LET times(i)   == PySlice(group.times, group.index[i], group.index[i + 1])
        feats(i)   == PySlice(group.features, group.index[i], group.index[i + 1])
        lo(i) == IF i = from_pos /\ from_time # NoTime
                 THEN FirstRowFrom(times(i), from_time[1]) ELSE 1
        hi(i) == IF i = to_pos /\ to_time # NoTime
                 THEN LastRowTo(times(i), to_time[1]) ELSE Len(times(i))
        fhi(i) == IF i = to_pos /\ to_time # NoTime
                  THEN LastRowTo(times(i), to_time[1]) ELSE Len(feats(i))
        n == to_pos - from_pos + 1
    IN [items    |-> [k \in 1..n |-> group.items[from_pos + k - 1]],
        times    |-> [k \in 1..n |->
                         Slice(times(from_pos + k - 1),
                               lo(from_pos + k - 1), hi(from_pos + k - 1))],
        features |-> [k \in 1..n |->
                         Slice(feats(from_pos + k - 1),
                               lo(from_pos + k - 1), fhi(from_pos + k - 1))]]

\* Reader.read(from_item, to_item, from_time, to_time): from_item defaults to
\* the first stored item, to_item to from_item if it was given and to the last
\* stored item otherwise
ReaderRead(group, from_item, to_item, from_time, to_time) ==
    LET items    == group.items
        from_pos == IF from_item = None THEN 1 ELSE ItemPos(items, from_item)
        to_pos   == IF to_item = None
                    THEN (IF from_item = None THEN Len(items) ELSE from_pos)
                    ELSE ItemPos(items, to_item)
    IN IF from_item # None /\ from_item \notin Range(items)
       THEN [status |-> "KeyError"]
       ELSE IF to_item # None /\ to_item \notin Range(items)
       THEN [status |-> "KeyError"]
       ELSE IF to_pos < from_pos
       THEN [status |-> "ValidationError"]
       ELSE [status |-> "ok",
             data   |-> ReadRange(group, from_pos, to_pos, from_time, to_time)]

\* Reader.index_read(index): every row the precomputed index names
ReaderIndexRead(group, index) ==
    [status |-> "ok",
     data   |-> ReadRange([group EXCEPT !.items = index.items,
                                        !.index = index.index],
                          1, Len(index.items), NoTime, NoTime)]

\* the index a caller computed beforehand from the group
StoredIndex(group) == [items |-> group.items, index |-> group.index]

\* mutant: to_item is not handed to the Reader
read_NoToItem(file, q) ==
    IF ReaderInit(file, q.group) # "ok"
    THEN [status |-> ReaderInit(file, q.group)]
    ELSE LET group == file.groups[q.group]
             r == IF q.index = None
                  THEN ReaderRead(group, q.from_item, None,
                                  q.from_time, q.to_time)
                  ELSE ReaderIndexRead(group, StoredIndex(group))
         IN IF r.status # "ok" THEN r
            ELSE [status |-> "ok",
                  ret    |-> <<DictZip(r.data.items, r.data.times),
                               DictZip(r.data.items, r.data.features)>>]

\* mutant: to_time is not handed to the Reader
read_NoToTime(file, q) ==
    IF ReaderInit(file, q.group) # "ok"
    THEN [status |-> ReaderInit(file, q.group)]
    ELSE LET group == file.groups[q.group]
             r == IF q.index = None
                  THEN ReaderRead(group, q.from_item, q.to_item,
                                  q.from_time, NoTime)
                  ELSE ReaderIndexRead(group, StoredIndex(group))
         IN IF r.status # "ok" THEN r
            ELSE [status |-> "ok",
                  ret    |-> <<DictZip(r.data.items, r.data.times),
                               DictZip(r.data.items, r.data.features)>>]

\* mutant: the index is used only when no from_item is given
read_IndexUnlessFromItem(file, q) ==
    IF ReaderInit(file, q.group) # "ok"
    THEN [status |-> ReaderInit(file, q.group)]
    ELSE LET group == file.groups[q.group]
             r == IF q.index = None \/ q.from_item # None
                  THEN ReaderRead(group, q.from_item, q.to_item,
                                  q.from_time, q.to_time)
                  ELSE ReaderIndexRead(group, StoredIndex(group))
         IN IF r.status # "ok" THEN r
            ELSE [status |-> "ok",
                  ret    |-> <<DictZip(r.data.items, r.data.times),
                               DictZip(r.data.items, r.data.features)>>]

read(file, q) ==
    IF ReaderInit(file, q.group) # "ok"
    THEN [status |-> ReaderInit(file, q.group)]
    ELSE LET group == file.groups[q.group]
             r == IF q.index = None
                  THEN ReaderRead(group, q.from_item, q.to_item,
                                  q.from_time, q.to_time)
                  ELSE ReaderIndexRead(group, StoredIndex(group))
         IN IF r.status # "ok" THEN r
            ELSE [status |-> "ok",
                  ret    |-> <<DictZip(r.data.items, r.data.times),
                               DictZip(r.data.items, r.data.features)>>]

(***************************************************************************)
(* The state: the file, the outcome of the last call, and the arguments of *)
(* the last write call that returned without error.                        *)
(***************************************************************************)
File == [fstate |-> fstate, groups |-> groups]

NoCall == [op |-> "none"]

\* a group written by an earlier release of the library
LegacyGroup ==
    [version  |-> "0.1",
     format   |-> "dense",
     chunk    |-> DefaultChunk,
     datasets |-> {ItemsName, TimesName, FeaturesName, IndexName},
     items    |-> <<"a">>,
     times    |-> <<0>>,
     features |-> <<<<0>>>>,
     index    |-> <<0, 1>>]

\* a group of this version that lacks its index dataset
PartialGroup ==
    [version  |-> Version,
     format   |-> "dense",
     chunk    |-> DefaultChunk,
     datasets |-> {ItemsName, TimesName, FeaturesName},
     items    |-> <<"a">>,
     times    |-> <<0>>,
     features |-> <<<<0>>>>,
     index    |-> <<>>]

NoWrite == [group |-> None]

Init ==
    /\ last = NoCall
    /\ written = NoWrite
    /\ \/ fstate = "absent"  /\ groups = [g \in GroupNames |-> NoGroup]
       \/ fstate = "nothdf5" /\ groups = [g \in GroupNames |-> NoGroup]
       \/ fstate = "hdf5"    /\ groups = [g \in GroupNames |-> NoGroup]
       \/ fstate = "hdf5"    /\ \E g \in GroupNames :
              groups = [h \in GroupNames |-> IF h = g THEN LegacyGroup ELSE NoGroup]
       \/ fstate = "hdf5"    /\ \E g \in GroupNames :
              groups = [h \in GroupNames |-> IF h = g THEN PartialGroup ELSE NoGroup]

\* the arrays of one item: 1..k frames
TimesArr(k) == SeqsUpTo(TimeVals, 1, k)
FeatArr(k) == SeqsUpTo(FeatRows, 1, k)

\* the longer the item list of a call, the shorter its items
FramesOf(n) == MaxFrames \div n

MkCall(g, items, times, features, dformat, chunk_size) ==
    [group |-> g, items |-> items, times |-> times, features |-> features,
     dformat |-> dformat, chunk_size |-> chunk_size]

\* calls with the default format and chunk size and any data, well formed or
\* not: duplicate items, decreasing times, ragged rows, times and features of
\* different lengths
DataCalls ==
    UNION {
      {MkCall(g, items, times, features, "dense", DefaultChunk) :
          g \in GroupNames, items \in [1..n -> ItemIds],
          times \in [1..n -> TimesArr(FramesOf(n))],
          features \in [1..n -> FeatArr(FramesOf(n))]} :
      n \in 1..MaxNew }

\* calls with any format and chunk size, one frame per item
EnvCalls ==
    UNION {
      {MkCall(g, items, [i \in 1..n |-> <<0>>], [i \in 1..n |-> << <<0>> >>],
              dformat, chunk_size) :
          g \in GroupNames, items \in [1..n -> ItemIds],
          dformat \in Formats, chunk_size \in ChunkSizes} :
      n \in 1..MaxNew }

Calls == DataCalls \cup EnvCalls

\* the model stores at most MaxItems items and MaxRows rows in a group
Fits(file) ==
    \A g \in GroupNames :
        file.groups[g] # NoGroup =>
            /\ Len(file.groups[g].items) <= MaxItems
            /\ Len(file.groups[g].features) <= MaxRows
            /\ Len(file.groups[g].times) <= MaxRows

Write ==
    \E call \in Calls :
        LET r == write(File, call)
        IN /\ Fits(r.file)
           /\ fstate' = r.file.fstate
           /\ groups' = r.file.groups
           /\ last' = [op |-> "write", status |-> r.status, stage |-> r.stage]
           /\ written' = IF r.status = "ok" THEN call ELSE written

MkQuery(g, from_item, to_item, from_time, to_time, index) ==
    [group |-> g, from_item |-> from_item, to_item |-> to_item,
     from_time |-> from_time, to_time |-> to_time, index |-> index]

Queries ==
    {MkQuery(g, from_item, to_item, from_time, to_time, index) :
        g \in GroupNames,
        from_item \in ItemIds \cup {None}, to_item \in ItemIds \cup {None},
        from_time \in {NoTime} \cup {<<t>> : t \in TimeVals},
        to_time \in {NoTime} \cup {<<t>> : t \in TimeVals},
        index \in {None, "stored"}}

\* read() changes nothing in the file; its outcome is what the caller gets
Read ==
    \E q \in Queries :
        /\ last' = [op |-> "read", status |-> read(File, q).status,
                    stage |-> "read"]
        /\ UNCHANGED <<fstate, groups, written>>

Next == Write \/ Read

Spec == Init /\ [][Next]_vars

(***************************************************************************)
(* Properties.                                                             *)
(***************************************************************************)
NoBounds(g) == MkQuery(g, None, None, NoTime, NoTime, None)

\* every item of the call has as many feature rows as times
RowsMatch(call) ==
    \A i \in 1..Len(call.items) : Len(call.times[i]) = Len(call.features[i])

Stored(g) == groups[g] # NoGroup

\* the last call was a write that returned and it created its group
JustCreated ==
    last.op = "write" /\ last.status = "ok" /\ last.stage = "created"

\* C1 -- Round-trip: after a write of dense data, each item with as many
\* feature rows as times, that created its group, a read of the group with no
\* bounds returns for every written item exactly the times and the feature
\* matrix written for it, and no other item.
RoundTrip ==
    (JustCreated /\ written.dformat = "dense" /\ RowsMatch(written)) =>
        LET r == read(File, NoBounds(written.group))
        IN /\ r.status = "ok"
           /\ DOMAIN r.ret[1] = Range(written.items)
           /\ DOMAIN r.ret[2] = Range(written.items)
           /\ \A i \in 1..Len(written.items) :
                 /\ r.ret[1][written.items[i]] = written.times[i]
                 /\ r.ret[2][written.items[i]] = written.features[i]

\* two items with different times and different features were written to a
\* new group
RoundTripWitness ==
    /\ JustCreated /\ written.dformat = "dense" /\ RowsMatch(written)
    /\ Len(written.items) = 2
    /\ written.times[1] # written.times[2]
    /\ written.features[1] # written.features[2]

\* the compatibility check of the claim, on what the group stores: the version
\* differs, an expected dataset is missing, or the format is not the data's
Incompatible(group, call) ==
    \/ group.version # "1.0"
    \/ \E d \in {"items", "times", "features", "index"} : d \notin group.datasets
    \/ call.dformat = "sparse" /\ \E d \in {"frames", "coordinates"} :
                                      d \notin group.datasets
    \/ group.format # call.dformat

\* C2 -- Writer.write on a group that exists and fails the compatibility
\* check raises IOError and leaves the file as it was: no row is appended to
\* the items, times, features or index of the group.
RefusedAppendWritesNothing ==
    \A call \in Calls :
        (Stored(call.group) /\ Incompatible(groups[call.group], call)) =>
            LET r == WriterWrite(File, Data(call), call.group, call.chunk_size)
            IN r.status = "IOError" /\ r.file = File

\* a write was refused by the compatibility check of a group of another version
RefusedAppendWitness ==
    /\ last.op = "write" /\ last.status = "IOError" /\ last.stage = "compatible"
    /\ \E g \in GroupNames : Stored(g) /\ groups[g].version # "1.0"

\* the group is a complete dense group of this version
DenseGroup(group) ==
    /\ group.version = "1.0"
    /\ group.format = "dense"
    /\ {"items", "times", "features", "index"} \subseteq group.datasets

\* the data of the call is well formed: unique items, non-decreasing times,
\* feature rows of one length
WellFormed(call) ==
    /\ \A i, j \in 1..Len(call.items) : call.items[i] = call.items[j] => i = j
    /\ \A i \in 1..Len(call.times) : \A j \in 1..(Len(call.times[i]) - 1) :
           call.times[i][j] <= call.times[i][j + 1]
    /\ \E dim \in 1..2 :
           \A i \in 1..Len(call.features) : \A j \in 1..Len(call.features[i]) :
               Len(call.features[i][j]) = dim

\* the call brings well-formed dense data of the group's columns, none of its
\* items stored already
NewDenseItems(group, call) ==
    /\ call.dformat = "dense"
    /\ call.chunk_size >= 8
    /\ WellFormed(call)
    /\ \A i \in 1..Len(call.items) : call.items[i] \notin Range(group.items)
    /\ \A i \in 1..Len(call.features) : \A j \in 1..Len(call.features[i]) :
           \A k \in 1..Len(group.features) :
               Len(call.features[i][j]) = Len(group.features[k])

\* what a step keeps of a group: it is still there and its rows are a prefix
Extends(old, new) ==
    /\ new # NoGroup
    /\ new.version = old.version /\ new.format = old.format
    /\ IsPrefix(old.index, new.index)
    /\ IsPrefix(old.items, new.items)
    /\ IsPrefix(old.times, new.times)
    /\ IsPrefix(old.features, new.features)

AppendSucceeds ==
    \A call \in Calls :
        (/\ Stored(call.group)
         /\ DenseGroup(groups[call.group])
         /\ NewDenseItems(groups[call.group], call)) =>
            LET r == write(File, call)
            IN /\ r.status = "ok"
               /\ Extends(groups[call.group], r.file.groups[call.group])
               /\ Len(r.file.groups[call.group].items)
                      = Len(groups[call.group].items) + Len(call.items)

\* C3 -- Append-only: writing new items to an existing dense group in the same
\* format succeeds and only adds entries; and whatever a step does, every
\* offset, item, times row and feature row stored before it is stored after it
\* at the same position with the same value.
AppendOnly ==
    /\ []AppendSucceeds
    /\ [][\A g \in GroupNames : Stored(g) => Extends(groups[g], groups'[g])]_vars

\* a write has appended a second item to a group
AppendOnlyWitness ==
    /\ last.op = "write" /\ last.status = "ok" /\ last.stage = "appended"
    /\ \E g \in GroupNames : Stored(g) /\ Len(groups[g].items) = 2

\* C4 -- Offset monotonicity: in every group with an index, the offsets are
\* non-decreasing and the last offset minus the first is the number of rows
\* of the feature store.
OffsetMonotonicity ==
    \A g \in GroupNames :
        (Stored(g) /\ "index" \in groups[g].datasets) =>
            LET index == groups[g].index
            IN /\ Len(index) >= 1
               /\ \A i \in 1..(Len(index) - 1) : index[i] <= index[i + 1]
               /\ index[Len(index)] - index[1] = Len(groups[g].features)

\* a group after an append, with three offsets and two rows
OffsetMonotonicityWitness ==
    /\ last.op = "write" /\ last.status = "ok" /\ last.stage = "appended"
    /\ \E g \in GroupNames :
          Stored(g) /\ Len(groups[g].index) = 3 /\ Len(groups[g].features) = 2

\* C5 -- Row-count consistency: every group stores as many times rows as
\* feature rows, and a write that returned gave every item as many feature
\* rows as times.
RowCountConsistency ==
    /\ \A g \in GroupNames :
           Stored(g) => Len(groups[g].times) = Len(groups[g].features)
    /\ (last.op = "write" /\ last.status = "ok") => RowsMatch(written)

ValidationBeforeIO ==
    \A call \in Calls :
        ~WellFormed(call) =>
            /\ write(File, call).status = "ValidationError"
            /\ write(File, call).stage = "data"
            /\ write(File, call).file = File

\* a write has raised the validation error and the file does not exist
ValidationBeforeIOWitness ==
    /\ last.op = "write" /\ last.status = "ValidationError" /\ last.stage = "data"
    /\ fstate = "absent"

\* the group can be read: it has its four datasets
Readable(g) ==
    /\ fstate = "hdf5" /\ Stored(g)
    /\ {"items", "times", "features", "index"} \subseteq groups[g].datasets

\* first position of a stored item
FirstPos(items, item) ==
    CHOOSE i \in 1..Len(items) :
        items[i] = item /\ \A j \in 1..(i - 1) : items[j] # item

\* the keys of the two dictionaries read() returns are the items in S
Returns(r, S) ==
    r.status = "ok" /\ DOMAIN r.ret[1] = S /\ DOMAIN r.ret[2] = S

\* C10 -- Default item range of read: with from_item alone, the one item; with
\* neither, every stored item; with to_item alone, the first stored item
\* through to_item; with both, from_item through to_item inclusive, by
\* position in the item set.
DefaultItemRange ==
    \A q \in Queries :
        (q.index = None /\ Readable(q.group)) =>
            LET items == groups[q.group].items
                r     == read(File, q)
                known(x) == x \in Range(items)
            IN /\ (q.from_item = None /\ q.to_item = None) =>
                      Returns(r, Range(items))
               /\ (known(q.from_item) /\ q.to_item = None) =>
                      Returns(r, {q.from_item})
               /\ (q.from_item = None /\ known(q.to_item)) =>
                      Returns(r, {items[i] : i \in 1..FirstPos(items, q.to_item)})
               /\ (/\ known(q.from_item) /\ known(q.to_item)
                   /\ FirstPos(items, q.from_item) <= FirstPos(items, q.to_item)) =>
                      Returns(r, {items[i] : i \in FirstPos(items, q.from_item)
                                                   ..FirstPos(items, q.to_item)})

\* a read has returned from a group of two items, where from_item alone gives
\* one item and no bounds give both
DefaultItemRangeWitness ==
    /\ last.op = "read" /\ last.status = "ok"
    /\ \E g \in GroupNames :
          /\ Readable(g)
          /\ Len(groups[g].items) = 2
          /\ groups[g].items[1] # groups[g].items[2]
          /\ Returns(read(File, MkQuery(g, groups[g].items[1], None,
                                        NoTime, NoTime, None)),
                     {groups[g].items[1]})
          /\ Returns(read(File, NoBounds(g)), Range(groups[g].items))

(***************************************************************************)
(* A second specification for the time bounds of read: one file, created   *)
(* and extended by well-formed single-item writes of up to MaxRangeFrames  *)
(* frames with times 0..MaxRangeTime, read with every pair of time bounds. *)
(***************************************************************************)
MaxRangeFrames == 3
MaxRangeTime == 2
MaxRangeRows == 5

RangeTimes == 0..MaxRangeTime

NonDecreasing(ts) == \A i, j \in 1..Len(ts) : i < j => ts[i] <= ts[j]

\* one item, its times non-decreasing, the feature row of frame k being <<k>>
RangeCalls ==
    {MkCall(g, <<item>>, <<ts>>, <<[k \in 1..Len(ts) |-> <<k>>]>>,
            "dense", DefaultChunk) :
        g \in GroupNames, item \in ItemIds,
        ts \in {t \in SeqsUpTo(RangeTimes, 1, MaxRangeFrames) : NonDecreasing(t)}}

RangeQueries ==
    {MkQuery(g, from_item, to_item, from_time, to_time, None) :
        g \in GroupNames,
        from_item \in ItemIds \cup {None}, to_item \in ItemIds \cup {None},
        from_time \in {NoTime} \cup {<<t>> : t \in RangeTimes},
        to_time \in {NoTime} \cup {<<t>> : t \in RangeTimes}}

RangeFits(file) ==
    \A g \in GroupNames :
        file.groups[g] # NoGroup =>
            /\ Len(file.groups[g].items) <= MaxItems
            /\ Len(file.groups[g].features) <= MaxRangeRows

RangeInit ==
    /\ last = NoCall
    /\ written = NoWrite
    /\ fstate = "absent"
    /\ groups = [g \in GroupNames |-> NoGroup]

RangeWrite ==
    \E call \in RangeCalls :
        LET r == write(File, call)
        IN /\ RangeFits(r.file)
           /\ fstate' = r.file.fstate
           /\ groups' = r.file.groups
           /\ last' = [op |-> "write", status |-> r.status, stage |-> r.stage]
           /\ written' = IF r.status = "ok" THEN call ELSE written

RangeRead ==
    \E q \in RangeQueries :
        /\ last' = [op |-> "read", status |-> read(File, q).status,
                    stage |-> "read"]
        /\ UNCHANGED <<fstate, groups, written>>

RangeNext == RangeWrite \/ RangeRead

SpecRange == RangeInit /\ [][RangeNext]_vars

\* the times and the feature rows the Index gives the item at position i
ItemTimes(group, i) ==
    PySlice(group.times, group.index[i], group.index[i + 1])
ItemFeatures(group, i) ==
    PySlice(group.features, group.index[i], group.index[i + 1])

RECURSIVE FramesWithin(_, _, _, _)
\* the rows of rows whose time in ts is within lo..hi, in order
FramesWithin(rows, ts, lo, hi) ==
    IF ts = <<>> \/ rows = <<>> THEN <<>>
    ELSE (IF lo <= Head(ts) /\ Head(ts) <= hi THEN <<Head(rows)>> ELSE <<>>)
         \o FramesWithin(Tail(rows), Tail(ts), lo, hi)

\* read(from_item=item, from_time=lo, to_time=hi) returns for the item
\* exactly its frames with lo <= t <= hi
ReadsFramesWithin(g, item, lo, hi) ==
    LET group == groups[g]
        i  == FirstPos(group.items, item)
        ts == ItemTimes(group, i)
        r  == read(File, MkQuery(g, item, None, <<lo>>, <<hi>>, None))
    IN /\ Returns(r, {item})
       /\ r.ret[1][item] = FramesWithin(ts, ts, lo, hi)
       /\ r.ret[2][item] = FramesWithin(ItemFeatures(group, i), ts, lo, hi)

\* the item is stored with non-decreasing times, one per feature row
TimedItem(g, item) ==
    /\ Readable(g)
    /\ item \in Range(groups[g].items)
    /\ LET i == FirstPos(groups[g].items, item)
       IN /\ NonDecreasing(ItemTimes(groups[g], i))
          /\ Len(ItemTimes(groups[g], i)) = Len(ItemFeatures(groups[g], i))

ChunkSizeIgnored ==
    \A call \in Calls, chunk_size \in ChunkSizes :
        fstate # "absent" =>
            LET r1 == write(File, call)
                r2 == write(File, [call EXCEPT !.chunk_size = chunk_size])
            IN r1.status = r2.status /\ r1.file = r2.file

(***************************************************************************)
(* A third specification for the Writer protocol: Writer(filename,         *)
(* chunk_size).write(data, groupname) called directly on a file of two     *)
(* groups, any one operation of the call raising or none.                  *)
(***************************************************************************)
StepGroups == {"features", "other"}

\* the operation of the call that raises, 0 for none
Faults == 0..(1 + Len(CreateSteps) + Len(AppendSteps))

\* one item of one frame, in either format
StepData ==
    {[items |-> <<"a">>, times |-> << <<0>> >>, features |-> << << <<0>> >> >>,
      dformat |-> dformat] : dformat \in Formats}

StepFits(file) ==
    \A g \in StepGroups :
        file.groups[g] # NoGroup =>
            /\ Len(file.groups[g].items) <= MaxItems
            /\ Len(file.groups[g].features) <= MaxRows
            /\ Len(file.groups[g].times) <= MaxRows
            /\ Len(file.groups[g].index) <= MaxItems + 1

StepInit ==
    /\ last = NoCall
    /\ written = NoWrite
    /\ \/ fstate = "absent" /\ groups = [g \in StepGroups |-> NoGroup]
       \/ fstate = "hdf5" /\ \E g \in StepGroups :
              groups = [h \in StepGroups |-> IF h = g THEN LegacyGroup ELSE NoGroup]

\* Writer(filename, chunk_size).write(data, groupname)
WriterCall ==
    \E data \in StepData, g \in StepGroups,
       chunk_size \in {ChunkFloor - 1, DefaultChunk}, fault \in Faults :
        IF WriterInit(File, chunk_size) # "ok"
        THEN /\ last' = [op |-> "Writer", status |-> WriterInit(File, chunk_size),
                         stage |-> "init", group |-> g, steps |-> <<>>]
             /\ UNCHANGED <<fstate, groups, written>>
        ELSE LET r == WriterRun(File, data, g, chunk_size, fault)
             IN /\ StepFits(r.file)
                /\ fstate' = r.file.fstate
                /\ groups' = r.file.groups
                /\ last' = [op |-> "Writer.write", status |-> r.status,
                            stage |-> r.stage, group |-> g, steps |-> r.steps]
                /\ UNCHANGED written

StepNext == WriterCall

SpecSteps == StepInit /\ [][StepNext]_vars

\* positions of the operations of S in a trace
Positions(steps, S) == {i \in 1..Len(steps) : steps[i] \in S}

RECURSIVE Only(_, _)
\* the operations of S in a trace, in order
Only(steps, S) ==
    IF steps = <<>> THEN <<>>
    ELSE (IF Head(steps) \in S THEN <<Head(steps)>> ELSE <<>>)
         \o Only(Tail(steps), S)

\* the last call was Writer.write
WriterWriteEnded == last.op = "Writer.write"

\* C13 -- Writer protocol order: within one Writer.write call, the existence
\* check and then either the compatibility check (existing group) or the
\* creation of the group, its version attribute and the features, times,
\* items and index datasets (new group) are all completed before the first
\* row is appended; rows are then appended in the order Index, Items,
\* Features, Times, each dataset exactly once in a call that returns and at
\* most once in a call that raises.
ProtocolOrder ==
    WriterWriteEnded =>
        LET steps   == last.steps
            appends == Only(steps, Range(AppendSteps))
            checks  == Only(steps, {"exists", "is_compatible"} \cup Range(CreateSteps))
        IN /\ IsPrefix(appends, AppendSteps)
           /\ last.status = "ok" => appends = AppendSteps
           /\ appends # <<>> =>
                 /\ checks \in {<<"exists", "is_compatible">>,
                                 <<"exists">> \o CreateSteps}
                 /\ \A i \in Positions(steps, Range(checks)),
                       j \in Positions(steps, Range(AppendSteps)) : i < j

\* a call that created its group and one that appended to it have returned
ProtocolOrderWitness ==
    /\ WriterWriteEnded /\ last.status = "ok" /\ last.stage = "appended"
    /\ Len(groups[last.group].items) = 2
    /\ Only(last.steps, Range(AppendSteps)) = AppendSteps

\* the file handles a trace leaves open
OpenHandles(steps) ==
    Cardinality(Positions(steps, {"open"})) - Cardinality(Positions(steps, {"close"}))

\* C14 -- Scoped file handle: the file handle opened by Writer.write is
\* released on every exit path of the call: normal return, IOError from a
\* failed compatibility check, and an error raised during dataset creation or
\* row appending; after the call ends no handle opened by it remains open.
ScopedFileHandle ==
    WriterWriteEnded =>
        /\ Positions(last.steps, {"open"}) = {1}
        /\ Positions(last.steps, {"close"}) = {Len(last.steps)}
        /\ OpenHandles(last.steps) = 0

\* a call has ended by an error raised while it appended rows, the index
\* already written
ScopedFileHandleWitness ==
    /\ WriterWriteEnded /\ last.status = "RuntimeError"
    /\ last.stage = "items.write"
    /\ Len(groups[last.group].index) > Len(groups[last.group].items) + 1

\* C15 -- Group isolation: a Writer.write call on group G of a file that
\* holds other groups leaves every other group's attributes and datasets
\* unchanged, whether the call creates G, appends to G, or fails the
\* compatibility check on G.
GroupIsolation ==
    [][\A g \in StepGroups : g # last'.group => groups'[g] = groups[g]]_vars

\* a call has created its group in a file whose other group holds an item
GroupIsolationWitness ==
    /\ WriterWriteEnded /\ last.status = "ok" /\ last.stage = "created"
    /\ \E g \in StepGroups :
          /\ g # last.group
          /\ groups[g] # NoGroup
          /\ groups[g].items # <<>>

\* two calls of read give the same outcome and the same data
SameResult(r1, r2) ==
    /\ r1.status = r2.status
    /\ r1.status = "ok" => r1.ret = r2.ret

\* C16 -- Index fast path: when read is called with a non-None index
\* argument, the result is produced by the index-based read alone and does
\* not depend on from_item, to_item, from_time or to_time: a call with an
\* index and any bounds returns what the call with that index and no bounds
\* returns.
IndexFastPath ==
    \A q \in Queries :
        q.index # None =>
            SameResult(read(File, q),
                       read(File, MkQuery(q.group, None, None, NoTime, NoTime,
                                          q.index)))

\* a read has returned from a group of two items, where from_item alone gives
\* the one item and from_item with an index gives both
IndexFastPathWitness ==
    /\ last.op = "read" /\ last.status = "ok"
    /\ \E g \in GroupNames :
          /\ Readable(g)
          /\ Len(groups[g].items) = 2
          /\ groups[g].items[1] # groups[g].items[2]
          /\ Returns(read(File, MkQuery(g, groups[g].items[2], None,
                                        <<1>>, <<1>>, None)),
                     {groups[g].items[2]})
          /\ Returns(read(File, MkQuery(g, groups[g].items[2], None,
                                        <<1>>, <<1>>, "stored")),
                     Range(groups[g].items))

====
